---- MODULE Spec2Model ----
(***************************************************************************)
(* MY-NOTE (src/app.py): a note-taking front end over flat files.          *)
(*                                                                         *)
(* The program's state is the file system it reads and writes: the four    *)
(* JSON stores, the documents directory, the generated mkdocs.yml, and     *)
(* the clock that generate_filename reads.  Every handler of main() and    *)
(* every function the handlers call is one action.                         *)
(*                                                                         *)
(* Texts whose characters matter (title, category, tags, body: they are    *)
(* pasted into the front matter) are sequences of one-character strings.   *)
(* File names, store keys and the opaque values of the template, prompt    *)
(* and keyword stores are strings.                                         *)
(*                                                                         *)
(* The view branches of main() write nothing, and merge_md_files reads and *)
(* writes paths of the user's outside this state: they have no action.     *)
(***************************************************************************)
EXTENDS Integers, Sequences, FiniteSets, TLC

VARIABLES
    today,          \* index into Dates: what datetime.now() gives (line 95)
    docsDir,        \* whether the directory DOCS_DIR exists
    docs,           \* the document files of DOCS_DIR: a set of [name, text]
    indexMd,        \* whether DOCS_DIR/index.md exists
    metadataFile,   \* METADATA_FILE
    templatesFile,  \* TEMPLATES_FILE
    promptsFile,    \* PROMPTS_FILE
    keywordsFile,   \* KEYWORDS_FILE
    mkdocsConfig,   \* MKDOCS_CONFIG
    lastOp,         \* the operation that ran last
    result,         \* what it returned, or that it raised
    started,        \* the external command it started, if any, and the nav of
                    \* mkdocs.yml at that moment
    nCreated,       \* create_document calls made so far (counted calls only)
    everReturned,   \* every file name a create_document call has returned
    lastKey,        \* the file name or store key the last operation was given,
                    \* or how the external tool it ran ended
    was,            \* whether the index and the directory held the name
                    \* before the last delete_document
    probe,          \* a store file that load_json and save_json are applied to
    loaded          \* what load_json(probe) gave last

vars == <<today, docsDir, docs, indexMd, metadataFile, templatesFile,
          promptsFile, keywordsFile, mkdocsConfig, lastOp, result, started,
          nCreated, everReturned, lastKey, was, probe, loaded>>

-----------------------------------------------------------------------------
(* Bounds of the model.                                                    *)

\* Document files the directory holds at most.
MaxDocs == 3
\* Document files the directory holds at most when main() is run with the
\* site pages.
MaxUiDocs == 2
\* Days the clock runs through.
MaxDay == 2
\* create_document calls counted in nCreated.
MaxCalls == 4

-----------------------------------------------------------------------------
(* Constants of the program.                                               *)

DOCS_DIR == "docs"
METADATA_FILE == "metadata.json"
TEMPLATES_FILE == "templates.json"
PROMPTS_FILE == "prompts.json"
KEYWORDS_FILE == "keywords.json"
MKDOCS_CONFIG == "mkdocs.yml"

\* strftime("%Y-%m-%d") of the days the clock runs through.
Dates == <<"2024-01-01", "2024-01-02", "2024-01-03", "2024-01-04">>

DQ == "\""
SQ == "'"
BS == "\\"
\* What YAML's escape \a stands for inside a double-quoted scalar.
BEL == "<BEL>"

-----------------------------------------------------------------------------
(* Python dicts as json keeps them: a sequence of [key, value] in          *)
(* insertion order, no key twice.                                          *)

Keys(d) == {d[i].key : i \in 1..Len(d)}

HasKey(d, k) == \E i \in 1..Len(d) : d[i].key = k

IndexOf(d, k) == CHOOSE i \in 1..Len(d) : d[i].key = k

Get(d, k) == d[IndexOf(d, k)].value

\* d[k] = v: an existing key keeps its place, a new one goes last.
Put(d, k, v) ==
    IF HasKey(d, k)
    THEN [d EXCEPT ![IndexOf(d, k)] = [key |-> k, value |-> v]]
    ELSE Append(d, [key |-> k, value |-> v])

\* del d[k]
Del(d, k) == SelectSeq(d, LAMBDA e : e.key # k)

UniqueKeys(d) == \A i, j \in 1..Len(d) : d[i].key = d[j].key => i = j

-----------------------------------------------------------------------------
(* 1. load_json / save_json.  A store file is absent, holds a JSON         *)
(* mapping, holds text that is not JSON, or holds bytes that are not       *)
(* UTF-8.                                                                  *)

Absent == [kind |-> "absent", data |-> <<>>]

JsonFile(d) == [kind |-> "json", data |-> d]

Returned(v) == [raised |-> FALSE, value |-> v]

Raised == [raised |-> TRUE, value |-> <<>>]

\* load_json: os.path.exists, open(..., encoding="utf-8"), json.load; only
\* json.JSONDecodeError is caught.  Decoding bytes that are not UTF-8 raises
\* UnicodeDecodeError, which is a ValueError but no JSONDecodeError.
load_json(file) ==
    CASE file.kind = "absent"      -> Returned(<<>>)
      [] file.kind = "json"        -> Returned(file.data)
      [] file.kind = "malformed"   -> Returned(<<>>)
      [] file.kind = "undecodable" -> Raised

\* save_json: json.dump of a dict of strings, read back by json.load as the
\* same keys in the same order.
save_json(d) == JsonFile(d)

-----------------------------------------------------------------------------
(* 3a. The front matter create_document writes (lines 108-114):             *)
(*      ---                                                                *)
(*      title: "<title>"                                                   *)
(*      category: "<category>"                                             *)
(*      tags: <Python's repr of the list>                                  *)
(*      ---                                                                *)
(* A document file is kept as the three scalars as written and the body.   *)

Contains(s, c) == \E i \in 1..Len(s) : s[i] = c

RECURSIVE EscapeFor(_, _)
\* The body of Python's repr of a str in quotes q: a backslash is doubled and
\* the quote character gets a backslash.
EscapeFor(s, q) ==
    IF s = <<>> THEN <<>>
    ELSE LET c == Head(s)
             e == IF c = BS THEN <<BS, BS>>
                  ELSE IF c = q THEN <<BS, q>>
                  ELSE <<c>>
         IN  e \o EscapeFor(Tail(s), q)

\* repr(str): single quotes, unless the string holds a single quote and no
\* double quote.
PyRepr(s) ==
    LET q == IF Contains(s, SQ) /\ ~Contains(s, DQ) THEN DQ ELSE SQ
    IN  <<q>> \o EscapeFor(s, q) \o <<q>>

\* f'title: "{title}"': the text between two double quotes, as it is.
Quoted(s) == <<DQ>> \o s \o <<DQ>>

\* The file's text: front matter and content.
FrontMatter(title, category, tags, content) ==
    [title    |-> Quoted(title),
     category |-> Quoted(category),
     tags     |-> [i \in 1..Len(tags) |-> PyRepr(tags[i])],
     body     |-> content]

(* How the written scalars read back as YAML, which is what the front      *)
(* matter is (mkdocs and the "meta" extension of line 59 read it so).      *)

YamlValue(v) == [ok |-> TRUE, value |-> v]

YamlError == [ok |-> FALSE, value |-> <<>>]

RECURSIVE ReadDoubleQuoted(_, _)
\* The rest of a double-quoted scalar after its opening quote: a backslash
\* escapes the next character (\" \\ \a ... ; \' is no escape), the first
\* bare quote closes the scalar and nothing may follow it on the line.
ReadDoubleQuoted(rest, acc) ==
    IF rest = <<>> THEN YamlError
    ELSE LET c == Head(rest) IN
         IF c = DQ
         THEN IF Tail(rest) = <<>> THEN YamlValue(acc) ELSE YamlError
         ELSE IF c = BS
         THEN IF Len(rest) < 2 THEN YamlError
              ELSE LET n == rest[2] IN
                   IF n = DQ \/ n = BS
                   THEN ReadDoubleQuoted(Tail(Tail(rest)), Append(acc, n))
                   ELSE IF n = "a"
                   THEN ReadDoubleQuoted(Tail(Tail(rest)), Append(acc, BEL))
                   ELSE YamlError
         ELSE ReadDoubleQuoted(Tail(rest), Append(acc, c))

RECURSIVE ReadSingleQuoted(_, _)
\* The rest of a single-quoted scalar after its opening quote: '' is a quote,
\* a backslash is a backslash, the first lone quote closes the scalar.
ReadSingleQuoted(rest, acc) ==
    IF rest = <<>> THEN YamlError
    ELSE LET c == Head(rest) IN
         IF c = SQ
         THEN IF Len(rest) >= 2 /\ rest[2] = SQ
              THEN ReadSingleQuoted(Tail(Tail(rest)), Append(acc, SQ))
              ELSE IF Tail(rest) = <<>> THEN YamlValue(acc) ELSE YamlError
         ELSE ReadSingleQuoted(Tail(rest), Append(acc, c))

\* A quoted scalar as YAML reads it.
ReadScalar(s) ==
    IF s = <<>> THEN YamlError
    ELSE IF Head(s) = DQ THEN ReadDoubleQuoted(Tail(s), <<>>)
    ELSE IF Head(s) = SQ THEN ReadSingleQuoted(Tail(s), <<>>)
    ELSE YamlError

\* The flow sequence of the tags line: every item must read.
ReadList(items) ==
    IF \A i \in 1..Len(items) : ReadScalar(items[i]).ok
    THEN YamlValue([i \in 1..Len(items) |-> ReadScalar(items[i]).value])
    ELSE YamlError

-----------------------------------------------------------------------------
(* 3b. Documents.                                                          *)

\* f"{date_str}-#{counter}.md"
FileName(day, counter) == Dates[day] \o "-#" \o ToString(counter) \o ".md"

Names(dir) == {d.name : d \in dir}

\* os.path.exists(os.path.join(DOCS_DIR, name)), for a document's name
Exists(dir, name) == name \in Names(dir)

\* open(path, "w") and write: the file of that name is replaced.
Write(dir, name, text) ==
    {d \in dir : d.name # name} \cup {[name |-> name, text |-> text]}

\* os.remove(path)
Remove(dir, name) == {d \in dir : d.name # name}

RECURSIVE FirstFree(_, _, _)
\* The loop of generate_filename: the first counter whose name no file has.
FirstFree(dir, day, counter) ==
    IF ~Exists(dir, FileName(day, counter))
    THEN counter
    ELSE FirstFree(dir, day, counter + 1)

\* A generate_filename that counts the files instead of probing the names.
generate_filename_by_count(dir, day) == FileName(day, Cardinality(dir) + 1)

\* A generate_filename that always starts over.
generate_filename_first(dir, day) == FileName(day, 1)

generate_filename(dir, day) == FileName(day, FirstFree(dir, day, 1))

Meta(title, category, tags) ==
    [title |-> title, category |-> category, tags |-> tags]

\* create_document: the file's name, the directory and the index after it.
\* (Here and below the index is a file that save_json wrote, or none: load_json
\* returns.)
create_document(file, dir, day, title, category, tags, content) ==
    LET metadata  == load_json(file).value
        file_name == generate_filename(dir, day)
    IN  [file_name |-> file_name,
         dir       |-> Write(dir, file_name,
                             FrontMatter(title, category, tags, content)),
         file      |-> save_json(Put(metadata, file_name,
                                     Meta(title, category, tags)))]

\* What f.read() gives for a document file: the text as written.
TextOf(dir, name) == (CHOOSE d \in dir : d.name = name).text

NoText == [title |-> <<>>, category |-> <<>>, tags |-> <<>>, body |-> <<>>]

\* load_markdown_file: [found, text]; found = FALSE stands for "".
load_markdown_file(dir, name) ==
    IF Exists(dir, name)
    THEN [found |-> TRUE, text |-> TextOf(dir, name)]
    ELSE [found |-> FALSE, text |-> NoText]

\* delete_document that forgets the file.
delete_document_index_only(file, dir, name) ==
    LET metadata == load_json(file).value
    IN  [file |-> IF HasKey(metadata, name)
                  THEN save_json(Del(metadata, name)) ELSE file,
         dir  |-> dir]

\* delete_document: the index is saved only when it held the name.
delete_document(file, dir, name) ==
    LET metadata == load_json(file).value
    IN  [file |-> IF HasKey(metadata, name)
                  THEN save_json(Del(metadata, name)) ELSE file,
         dir  |-> IF Exists(dir, name) THEN Remove(dir, name) ELSE dir]

-----------------------------------------------------------------------------
(* 2. mkdocs_setup.                                                        *)

NavEntry(label, target) == [label |-> label, target |-> target]

Home == NavEntry(<<"H", "o", "m", "e">>, "index.md")

TemplatesPage == NavEntry(<<"T", "e", "m", "p", "l", "a", "t", "e", "s">>, "templates.md")

PromptsPage == NavEntry(<<"P", "r", "o", "m", "p", "t", "s">>, "prompts.md")

KeywordsPage == NavEntry(<<"K", "e", "y", "w", "o", "r", "d", "s">>, "keywords.md")

NoConfig == [exists |-> FALSE, site_name |-> "", theme |-> "", docs_dir |-> "", nav |-> <<>>]

\* for fname, meta in metadata.items(): nav.append({meta["title"]: fname})
DocEntries(metadata) ==
    [i \in 1..Len(metadata) |-> NavEntry(metadata[i].value.title, metadata[i].key)]

\* A nav that lists the pages before the documents.
BuildNavPagesFirst(metadata, templates, prompts, keywords) ==
    <<Home>>
    \o (IF templates # <<>> THEN <<TemplatesPage>> ELSE <<>>)
    \o (IF prompts # <<>> THEN <<PromptsPage>> ELSE <<>>)
    \o (IF keywords # <<>> THEN <<KeywordsPage>> ELSE <<>>)
    \o DocEntries(metadata)

\* The nav of lines 51 and 63-74.
BuildNav(metadata, templates, prompts, keywords) ==
    <<Home>>
    \o DocEntries(metadata)
    \o (IF templates # <<>> THEN <<TemplatesPage>> ELSE <<>>)
    \o (IF prompts # <<>> THEN <<PromptsPage>> ELSE <<>>)
    \o (IF keywords # <<>> THEN <<KeywordsPage>> ELSE <<>>)

\* The mkdocs.yml that mkdocs_setup writes from the four stores.  yaml.dump
\* keeps a list's order and each entry is a dict of one key, so the nav reads
\* back as built.
BuildConfig(mfile, tfile, pfile, kfile) ==
    [exists    |-> TRUE,
     site_name |-> "MY-NOTE",
     theme     |-> "material",
     docs_dir  |-> DOCS_DIR,
     nav       |-> BuildNav(load_json(mfile).value, load_json(tfile).value,
                            load_json(pfile).value, load_json(kfile).value)]

\* mkdocs_setup: writes mkdocs.yml, then makes sure DOCS_DIR and its index.md
\* exist.
mkdocs_setup ==
    /\ mkdocsConfig' = BuildConfig(metadataFile, templatesFile,
                                   promptsFile, keywordsFile)
    /\ docsDir' = TRUE
    /\ indexMd' = TRUE

-----------------------------------------------------------------------------
(* 4. mkdocs_build, mkdocs_serve, mkdocs_deploy.  The external tool exits  *)
(* with 0 ("ok"), exits with another status ("nonzero"), or is not on the  *)
(* PATH ("notfound").                                                      *)

ToolOutcomes == {"ok", "nonzero", "notfound"}

Ok(msg) == [kind |-> "ok", value |-> msg]

Error(msg) == [kind |-> "error", value |-> msg]

Exception(name) == [kind |-> "raised", value |-> name]

NoResult == [kind |-> "none", value |-> ""]

NotStarted == [cmd |-> "none", nav |-> <<>>]

\* subprocess.run([...], check=True) inside try/except CalledProcessError:
\* a missing binary raises FileNotFoundError, which that clause lets through.
RunChecked(tool, done, failed) ==
    CASE tool = "ok"       -> Ok(done)
      [] tool = "nonzero"  -> Error(failed)
      [] tool = "notfound" -> Exception("FileNotFoundError")

\* subprocess.Popen([...]) inside try/except Exception: Popen returns once the
\* process is started, so its exit status is never seen; only a missing binary
\* raises, and that is caught.
Spawn(tool, done, failed) ==
    CASE tool = "ok"       -> Ok(done)
      [] tool = "nonzero"  -> Ok(done)
      [] tool = "notfound" -> Error(failed)

docVars == <<today, docs, metadataFile>>

storeVars == <<templatesFile, promptsFile, keywordsFile>>

callVars == <<nCreated, everReturned, was, probe, loaded>>

\* An mkdocs operation that starts its command on the mkdocs.yml it finds.
MkdocsWithoutSetup(op, cmd, tool, res) ==
    /\ UNCHANGED <<mkdocsConfig, docsDir, indexMd>>
    /\ started' = [cmd |-> cmd, nav |-> mkdocsConfig.nav]
    /\ result' = res
    /\ lastOp' = op
    /\ lastKey' = tool
    /\ UNCHANGED <<docVars, storeVars, callVars>>

\* What the three operations share: mkdocs_setup(), then the command.
Mkdocs(op, cmd, tool, res) ==
    /\ mkdocs_setup
    /\ started' = [cmd |-> cmd, nav |-> mkdocsConfig'.nav]
    /\ result' = res
    /\ lastOp' = op
    /\ lastKey' = tool
    /\ UNCHANGED <<docVars, storeVars, callVars>>

mkdocs_build(tool) ==
    Mkdocs("mkdocs_build", "build", tool, RunChecked(tool, "build done", "build error"))

mkdocs_serve(tool) ==
    Mkdocs("mkdocs_serve", "serve", tool, Spawn(tool, "serve started", "serve error"))

mkdocs_deploy(tool) ==
    Mkdocs("mkdocs_deploy", "gh-deploy", tool, RunChecked(tool, "deploy done", "deploy error"))

-----------------------------------------------------------------------------
(* The functions of section 3 called directly.                             *)

siteVars == <<mkdocsConfig, indexMd>>

\* Every name generate_filename can give within the bounds.
AllNames == {FileName(d, n) : d \in 1..MaxDay, n \in 1..MaxDocs}

CallCreate(title, category, tags, content) ==
    /\ Cardinality(docs) < MaxDocs
    /\ nCreated < MaxCalls
    /\ LET r == create_document(metadataFile, docs, today,
                                title, category, tags, content)
       IN  /\ docs' = r.dir
           /\ metadataFile' = r.file
           /\ result' = Ok(r.file_name)
           /\ lastKey' = r.file_name
           /\ everReturned' = everReturned \cup {r.file_name}
    /\ docsDir' = TRUE
    /\ nCreated' = nCreated + 1
    /\ lastOp' = "create_document"
    /\ started' = NotStarted
    /\ UNCHANGED <<today, storeVars, siteVars, was, probe, loaded>>

CallDelete(name) ==
    /\ LET r == delete_document(metadataFile, docs, name)
       IN  /\ docs' = r.dir
           /\ metadataFile' = r.file
    /\ was' = [index |-> HasKey(load_json(metadataFile).value, name),
                dir   |-> Exists(docs, name)]
    /\ result' = Ok("")
    /\ lastKey' = name
    /\ lastOp' = "delete_document"
    /\ started' = NotStarted
    /\ UNCHANGED <<today, docsDir, storeVars, siteVars, nCreated, everReturned,
                   probe, loaded>>

CallSetup ==
    /\ mkdocs_setup
    /\ result' = Ok("")
    /\ lastKey' = ""
    /\ lastOp' = "mkdocs_setup"
    /\ started' = NotStarted
    /\ UNCHANGED <<docVars, storeVars, callVars>>

\* Midnight: datetime.now() gives the next day from now on.
Tick ==
    /\ today < MaxDay
    /\ today' = today + 1
    /\ lastOp' = "tick"
    /\ started' = NotStarted
    /\ lastKey' = ""
    /\ result' = NoResult
    /\ UNCHANGED <<docsDir, docs, indexMd, metadataFile, storeVars,
                   mkdocsConfig, callVars>>

\* load_json applied to the probed file; it opens the file for reading only.
CallLoad ==
    /\ loaded' = load_json(probe)
    /\ lastOp' = "load_json"
    /\ started' = NotStarted
    /\ lastKey' = ""
    /\ result' = IF load_json(probe).raised
                 THEN Exception("UnicodeDecodeError") ELSE Ok("")
    /\ UNCHANGED <<today, docsDir, docs, indexMd, metadataFile, storeVars,
                   mkdocsConfig, nCreated, everReturned, was, probe>>

\* save_json of a mapping to the probed file.
CallSave(d) ==
    /\ probe' = save_json(d)
    /\ lastOp' = "save_json"
    /\ started' = NotStarted
    /\ lastKey' = ""
    /\ result' = Ok("")
    /\ UNCHANGED <<today, docsDir, docs, indexMd, metadataFile, storeVars,
                   mkdocsConfig, nCreated, everReturned, was, loaded>>

-----------------------------------------------------------------------------
(* 5. main(): one action per button.  Streamlit runs the script anew on    *)
(* every interaction, so a handler works on the store as load_json gives   *)
(* it at that moment.  A selectbox offers list(store.keys()).              *)

\* The add branch that skips the membership test.
store_add_overwrite(file, key, value, kind) ==
    [file   |-> save_json(Put(load_json(file).value, key, value)),
     result |-> Ok(kind \o " added")]

\* The three add branches: "if key in store: st.error(...) else: store[key] =
\* value; save_json(...)".
store_add(file, key, value, kind) ==
    LET store == load_json(file).value
    IN  IF HasKey(store, key)
        THEN [file |-> file, result |-> Error(kind \o " exists")]
        ELSE [file   |-> save_json(Put(store, key, value)),
              result |-> Ok(kind \o " added")]

\* The three edit branches: store[key] = value; save_json(...).
store_edit(file, key, value, kind) ==
    [file   |-> save_json(Put(load_json(file).value, key, value)),
     result |-> Ok(kind \o " edited")]

\* The three delete branches: del store[key]; save_json(...).
store_delete(file, key, kind) ==
    [file   |-> save_json(Del(load_json(file).value, key)),
     result |-> Ok(kind \o " deleted")]

Template(name, content) == [template_name |-> name, content |-> content]

uiDocFrame == <<today, storeVars, siteVars, callVars>>

\* "문서 추가": an empty title is refused, otherwise create_document.
DocAdd(title, category, tags, content) ==
    /\ Cardinality(docs) < MaxUiDocs
    /\ lastOp' = "doc_add"
    /\ started' = NotStarted
    /\ IF title = <<>>
       THEN /\ result' = Error("title required")
            /\ lastKey' = ""
            /\ UNCHANGED <<docsDir, docs, metadataFile>>
       ELSE LET r == create_document(metadataFile, docs, today,
                                     title, category, tags, content)
            IN  /\ docs' = r.dir
                /\ metadataFile' = r.file
                /\ docsDir' = TRUE
                /\ result' = Ok(r.file_name)
                /\ lastKey' = r.file_name
    /\ UNCHANGED uiDocFrame

\* "수정 완료" of a document: create_document with the form's values; the
\* selected file_name is used in the message only.
DocEdit(file_name, title, category, tags, content) ==
    /\ Cardinality(docs) < MaxUiDocs
    /\ HasKey(load_json(metadataFile).value, file_name)
    /\ lastOp' = "doc_edit"
    /\ started' = NotStarted
    /\ lastKey' = file_name
    /\ LET r == create_document(metadataFile, docs, today,
                                title, category, tags, content)
       IN  /\ docs' = r.dir
           /\ metadataFile' = r.file
           /\ docsDir' = TRUE
    /\ result' = Ok(file_name)
    /\ UNCHANGED uiDocFrame

\* "문서 삭제"
DocDelete(file_name) ==
    /\ HasKey(load_json(metadataFile).value, file_name)
    /\ lastOp' = "doc_delete"
    /\ started' = NotStarted
    /\ lastKey' = file_name
    /\ LET r == delete_document(metadataFile, docs, file_name)
       IN  /\ docs' = r.dir
           /\ metadataFile' = r.file
    /\ result' = Ok(file_name)
    /\ UNCHANGED <<docsDir, uiDocFrame>>

uiStoreFrame == <<today, docsDir, docs, metadataFile, siteVars, callVars>>

TemplateAdd(new_id, new_name, new_content) ==
    /\ LET r == store_add(templatesFile, new_id,
                          Template(new_name, new_content), "template")
       IN  templatesFile' = r.file /\ result' = r.result
    /\ lastOp' = "template_add"
    /\ started' = NotStarted
    /\ lastKey' = new_id
    /\ UNCHANGED <<promptsFile, keywordsFile, uiStoreFrame>>

TemplateEdit(tpl_id, updated_name, updated_content) ==
    /\ HasKey(load_json(templatesFile).value, tpl_id)
    /\ LET r == store_edit(templatesFile, tpl_id,
                           Template(updated_name, updated_content), "template")
       IN  templatesFile' = r.file /\ result' = r.result
    /\ lastOp' = "template_edit"
    /\ started' = NotStarted
    /\ lastKey' = tpl_id
    /\ UNCHANGED <<promptsFile, keywordsFile, uiStoreFrame>>

TemplateDelete(tpl_id) ==
    /\ HasKey(load_json(templatesFile).value, tpl_id)
    /\ LET r == store_delete(templatesFile, tpl_id, "template")
       IN  templatesFile' = r.file /\ result' = r.result
    /\ lastOp' = "template_delete"
    /\ started' = NotStarted
    /\ lastKey' = tpl_id
    /\ UNCHANGED <<promptsFile, keywordsFile, uiStoreFrame>>

PromptAdd(prompt_id, prompt_text) ==
    /\ LET r == store_add(promptsFile, prompt_id, prompt_text, "prompt")
       IN  promptsFile' = r.file /\ result' = r.result
    /\ lastOp' = "prompt_add"
    /\ started' = NotStarted
    /\ lastKey' = prompt_id
    /\ UNCHANGED <<templatesFile, keywordsFile, uiStoreFrame>>

PromptEdit(prompt_id, updated_text) ==
    /\ HasKey(load_json(promptsFile).value, prompt_id)
    /\ LET r == store_edit(promptsFile, prompt_id, updated_text, "prompt")
       IN  promptsFile' = r.file /\ result' = r.result
    /\ lastOp' = "prompt_edit"
    /\ started' = NotStarted
    /\ lastKey' = prompt_id
    /\ UNCHANGED <<templatesFile, keywordsFile, uiStoreFrame>>

PromptDelete(prompt_id) ==
    /\ HasKey(load_json(promptsFile).value, prompt_id)
    /\ LET r == store_delete(promptsFile, prompt_id, "prompt")
       IN  promptsFile' = r.file /\ result' = r.result
    /\ lastOp' = "prompt_delete"
    /\ started' = NotStarted
    /\ lastKey' = prompt_id
    /\ UNCHANGED <<templatesFile, keywordsFile, uiStoreFrame>>

KeywordAdd(keyword, description) ==
    /\ LET r == store_add(keywordsFile, keyword, description, "keyword")
       IN  keywordsFile' = r.file /\ result' = r.result
    /\ lastOp' = "keyword_add"
    /\ started' = NotStarted
    /\ lastKey' = keyword
    /\ UNCHANGED <<templatesFile, promptsFile, uiStoreFrame>>

KeywordEdit(keyword, updated_description) ==
    /\ HasKey(load_json(keywordsFile).value, keyword)
    /\ LET r == store_edit(keywordsFile, keyword, updated_description, "keyword")
       IN  keywordsFile' = r.file /\ result' = r.result
    /\ lastOp' = "keyword_edit"
    /\ started' = NotStarted
    /\ lastKey' = keyword
    /\ UNCHANGED <<templatesFile, promptsFile, uiStoreFrame>>

KeywordDelete(keyword) ==
    /\ HasKey(load_json(keywordsFile).value, keyword)
    /\ LET r == store_delete(keywordsFile, keyword, "keyword")
       IN  keywordsFile' = r.file /\ result' = r.result
    /\ lastOp' = "keyword_delete"
    /\ started' = NotStarted
    /\ lastKey' = keyword
    /\ UNCHANGED <<templatesFile, promptsFile, uiStoreFrame>>

-----------------------------------------------------------------------------
(* Initial states and inputs.                                              *)

\* Nothing on disk yet, nothing run yet.
Init ==
    /\ today = 1
    /\ docsDir = FALSE
    /\ docs = {}
    /\ indexMd = FALSE
    /\ metadataFile = Absent
    /\ templatesFile = Absent
    /\ promptsFile = Absent
    /\ keywordsFile = Absent
    /\ mkdocsConfig = NoConfig
    /\ lastOp = "init"
    /\ lastKey = ""
    /\ result = NoResult
    /\ started = NotStarted
    /\ nCreated = 0
    /\ everReturned = {}
    /\ was = [index |-> FALSE, dir |-> FALSE]
    /\ probe = Absent
    /\ loaded = Returned(<<>>)

\* What the forms of main() are filled with.  Tags are what
\* [tag.strip() for tag in tags_input.split(",") if tag.strip()] gives: no
\* comma, no blank at either end, none empty.
SiteTitles == {<<"a">>}

SiteCategories == {<<"c">>}

SiteTags == {<< <<"x">> >>}

SiteBodies == {<<"t">>}

SiteIds == {"k1"}

SiteValues == {"v1"}

SiteNames == {"n1"}

\* The whole of main() on one day, the merge page left out.
Next ==
    \/ \E t \in SiteTitles, c \in SiteCategories, g \in SiteTags, b \in SiteBodies :
           DocAdd(t, c, g, b)
    \/ \E f \in AllNames, t \in SiteTitles, c \in SiteCategories, g \in SiteTags,
          b \in SiteBodies : DocEdit(f, t, c, g, b)
    \/ \E f \in AllNames : DocDelete(f)
    \/ \E k \in SiteIds, n \in SiteNames, v \in SiteValues : TemplateAdd(k, n, v)
    \/ \E k \in SiteIds, n \in SiteNames, v \in SiteValues : TemplateEdit(k, n, v)
    \/ \E k \in SiteIds : TemplateDelete(k)
    \/ \E k \in SiteIds, v \in SiteValues : PromptAdd(k, v)
    \/ \E k \in SiteIds, v \in SiteValues : PromptEdit(k, v)
    \/ \E k \in SiteIds : PromptDelete(k)
    \/ \E k \in SiteIds, v \in SiteValues : KeywordAdd(k, v)
    \/ \E k \in SiteIds, v \in SiteValues : KeywordEdit(k, v)
    \/ \E k \in SiteIds : KeywordDelete(k)
    \/ \E tool \in ToolOutcomes : mkdocs_build(tool)
    \/ \E tool \in ToolOutcomes : mkdocs_serve(tool)
    \/ \E tool \in ToolOutcomes : mkdocs_deploy(tool)

Spec == Init /\ [][Next]_vars

-----------------------------------------------------------------------------
(* The parts of the program on their own, with more inputs.                *)

\* Arguments of create_document: a plain title, one with a double quote, one
\* with a backslash; no tags, or a plain tag and one with an apostrophe.
Titles == {<<"a">>, <<"b", DQ>>, <<BS, "a">>}

Categories == {<<"c">>}

TagLists == {<<>>, << <<"x">>, <<"i", SQ, "s">> >>}

Bodies == {<<"t">>}

\* create_document called again and again on one day, from nothing.
CreateNext ==
    \E t \in Titles, c \in Categories, g \in TagLists, b \in Bodies :
        CallCreate(t, c, g, b)

CreateSpec == Init /\ [][CreateNext]_vars

\* create_document, delete_document and mkdocs_setup called in any order, from
\* nothing, over the days.
DocNext ==
    \/ \E t \in Titles, c \in Categories, g \in TagLists, b \in Bodies :
           CallCreate(t, c, g, b)
    \/ \E f \in AllNames : CallDelete(f)
    \/ CallSetup
    \/ Tick

DocSpec == Init /\ [][DocNext]_vars

\* create_document and delete_document called in any order, from nothing,
\* over the days.
NameNext ==
    \/ \E t \in {<<"a">>, <<"b">>} : CallCreate(t, <<"c">>, <<>>, <<"t">>)
    \/ \E f \in AllNames : CallDelete(f)
    \/ Tick

NameSpec == Init /\ [][NameNext]_vars

\* The document page of main().
UiTitles == {<<>>, <<"a">>, <<"b">>}

UiTagLists == {<<>>, << <<"x">> >>}

DocUiNext ==
    \/ \E t \in UiTitles, c \in Categories, g \in UiTagLists, b \in Bodies :
           DocAdd(t, c, g, b)
    \/ \E f \in AllNames, t \in UiTitles, c \in Categories, g \in UiTagLists,
          b \in Bodies : DocEdit(f, t, c, g, b)
    \/ \E f \in AllNames : DocDelete(f)
    \/ Tick

DocUiSpec == Init /\ [][DocUiNext]_vars

\* The template, prompt and keyword pages of main().
Ids == {"k1", "k2"}

Values == {"v1", "v2"}

TemplateNames == {"n1"}

StoreNext ==
    \/ \E k \in Ids, n \in TemplateNames, v \in Values : TemplateAdd(k, n, v)
    \/ \E k \in Ids, n \in TemplateNames, v \in Values : TemplateEdit(k, n, v)
    \/ \E k \in Ids : TemplateDelete(k)
    \/ \E k \in Ids, v \in Values : PromptAdd(k, v)
    \/ \E k \in Ids, v \in Values : PromptEdit(k, v)
    \/ \E k \in Ids : PromptDelete(k)
    \/ \E k \in Ids, v \in Values : KeywordAdd(k, v)
    \/ \E k \in Ids, v \in Values : KeywordEdit(k, v)
    \/ \E k \in Ids : KeywordDelete(k)

StoreSpec == Init /\ [][StoreNext]_vars

\* Every dict of at most n entries drawn from a set of [key, value].
Dicts(entries, n) ==
    {d \in UNION {[1..k -> entries] : k \in 0..n} : UniqueKeys(d)}

DayNames == {FileName(1, n) : n \in 1..MaxDocs}

\* The index as the document page can leave it: any documents in any order.
Indexes(titles) ==
    Dicts({[key |-> f, value |-> Meta(t, <<"c">>, <<>>)] :
               f \in DayNames, t \in titles}, MaxDocs)

\* The document files that go with an index.
FilesOf(metadata) ==
    {[name |-> metadata[i].key,
      text |-> FrontMatter(metadata[i].value.title, metadata[i].value.category,
                           metadata[i].value.tags, <<"t">>)] :
         i \in 1..Len(metadata)}

OneEntry(v) == <<[key |-> "k1", value |-> v]>>

StoreFiles(v) == {Absent, JsonFile(<<>>), JsonFile(OneEntry(v))}

\* mkdocs_build, mkdocs_serve and mkdocs_deploy on any content of the stores.
SiteInit ==
    /\ today = 1
    /\ docsDir = TRUE
    /\ indexMd = FALSE
    /\ \E metadata \in Indexes({<<"a">>, <<"b">>}) :
           /\ metadataFile \in {JsonFile(metadata)}
                               \cup (IF metadata = <<>> THEN {Absent} ELSE {})
           /\ docs = FilesOf(metadata)
    /\ templatesFile \in StoreFiles(Template("n1", "v1"))
    /\ promptsFile \in StoreFiles("v1")
    /\ keywordsFile \in StoreFiles("v1")
    /\ mkdocsConfig = NoConfig
    /\ lastOp = "init"
    /\ lastKey = ""
    /\ result = NoResult
    /\ started = NotStarted
    /\ nCreated = 0
    /\ everReturned = {}
    /\ was = [index |-> FALSE, dir |-> FALSE]
    /\ probe = Absent
    /\ loaded = Returned(<<>>)

SiteNext ==
    \/ \E tool \in ToolOutcomes : mkdocs_build(tool)
    \/ \E tool \in ToolOutcomes : mkdocs_serve(tool)
    \/ \E tool \in ToolOutcomes : mkdocs_deploy(tool)

SiteSpec == SiteInit /\ [][SiteNext]_vars

\* delete_document on any store: a name may be in the index, in the
\* directory, in both or in neither.
DeleteInit ==
    /\ today = 1
    /\ docsDir = TRUE
    /\ indexMd = FALSE
    /\ metadataFile \in {Absent} \cup {JsonFile(m) : m \in Indexes({<<"a">>})}
    /\ docs \in {FilesOf(m) : m \in Indexes({<<"a">>})}
    /\ templatesFile = Absent
    /\ promptsFile = Absent
    /\ keywordsFile = Absent
    /\ mkdocsConfig = NoConfig
    /\ lastOp = "init"
    /\ lastKey = ""
    /\ result = NoResult
    /\ started = NotStarted
    /\ nCreated = 0
    /\ everReturned = {}
    /\ was = [index |-> FALSE, dir |-> FALSE]
    /\ probe = Absent
    /\ loaded = Returned(<<>>)

DeleteNext == \E f \in AllNames : CallDelete(f)

DeleteSpec == DeleteInit /\ [][DeleteNext]_vars

\* load_json and save_json on one file, whatever it holds.
ProbeDicts ==
    Dicts({[key |-> k, value |-> v] : k \in Ids, v \in Values}, Cardinality(Ids))

LoadInit ==
    /\ today = 1
    /\ docsDir = FALSE
    /\ docs = {}
    /\ indexMd = FALSE
    /\ metadataFile = Absent
    /\ templatesFile = Absent
    /\ promptsFile = Absent
    /\ keywordsFile = Absent
    /\ mkdocsConfig = NoConfig
    /\ lastOp = "init"
    /\ lastKey = ""
    /\ result = NoResult
    /\ started = NotStarted
    /\ nCreated = 0
    /\ everReturned = {}
    /\ was = [index |-> FALSE, dir |-> FALSE]
    /\ probe \in {Absent,
                  [kind |-> "malformed", data |-> <<>>],
                  [kind |-> "undecodable", data |-> <<>>]}
                 \cup {JsonFile(d) : d \in ProbeDicts}
    /\ loaded = Returned(<<>>)

LoadNext ==
    \/ CallLoad
    \/ \E d \in ProbeDicts : CallSave(d)

LoadSpec == LoadInit /\ [][LoadNext]_vars

-----------------------------------------------------------------------------
(* The claims.                                                             *)

Index == load_json(metadataFile).value

Templates == load_json(templatesFile).value

Prompts == load_json(promptsFile).value

KeywordStore == load_json(keywordsFile).value

MkdocsOps == {"mkdocs_build", "mkdocs_serve", "mkdocs_deploy"}

\* C1 (CreateSpec): create_document called k times on one day, from an empty
\* directory, has returned the names with the suffixes 1..k, the k-th call the
\* one with suffix k; and never do two document files, or two index entries,
\* have one name.
C1_SuffixesCountUp ==
    /\ everReturned = {FileName(today, k) : k \in 1..nCreated}
    /\ lastOp = "create_document" => result = Ok(FileName(today, nCreated))
    /\ \A a, b \in docs : a.name = b.name => a = b
    /\ UniqueKeys(Index)

\* The third call of a day has returned suffix 3.
C1_ThirdCall ==
    /\ lastOp = "create_document"
    /\ nCreated = 3
    /\ result.value = FileName(today, 3)
    /\ Cardinality(docs) = 3

\* C2 (Spec): when the external tool exits with a non-zero status or is not
\* found, mkdocs_build, mkdocs_serve and mkdocs_deploy return an error string
\* and raise nothing.
C2_FailuresReturnErrorString ==
    (lastOp \in MkdocsOps /\ lastKey \in {"nonzero", "notfound"})
        => result.kind = "error"

\* C3 (Spec): when build, serve or gh-deploy is started, mkdocs_setup has just
\* run in the same operation: the nav of mkdocs.yml at that moment is the nav
\* of the four stores as they are.
C3_SetupBeforeCommand ==
    lastOp \in MkdocsOps =>
        /\ started.cmd \in {"build", "serve", "gh-deploy"}
        /\ mkdocsConfig.exists
        /\ started.nav = mkdocsConfig.nav
        /\ started.nav = BuildNav(Index, Templates, Prompts, KeywordStore)

\* serve was started after the stores had changed since init: two documents
\* and a template are in the nav it was started on.
C3_ServeOnFreshNav ==
    /\ lastOp = "mkdocs_serve"
    /\ started.cmd = "serve"
    /\ Len(Index) = 2
    /\ Templates # <<>>
    /\ Prompts = <<>>
    /\ Len(started.nav) = 4

\* C4 (DocUiSpec): editing document f replaces its record: afterwards the
\* index entry of f and the file f hold the new title, category, tags and
\* body, and the index has the file names it had before.
C4_EditReplacesRecord ==
    [][\A f \in AllNames, t \in UiTitles, c \in Categories, g \in UiTagLists,
          b \in Bodies :
           DocEdit(f, t, c, g, b) =>
               /\ Keys(load_json(metadataFile').value) = Keys(Index)
               /\ Get(load_json(metadataFile').value, f) = Meta(t, c, g)
               /\ load_markdown_file(docs', f).text = FrontMatter(t, c, g, b)]_vars

AddedTo(op, file) ==
    /\ lastOp' = op
    /\ HasKey(load_json(file).value, lastKey')

\* C5 (StoreSpec): on the template, prompt and keyword pages, adding a key the
\* store already has leaves the store file as it is and shows an error; and
\* after every step no store has a key twice.
C5_AddNeverOverwrites ==
    [][/\ AddedTo("template_add", templatesFile)
            => templatesFile' = templatesFile /\ result'.kind = "error"
       /\ AddedTo("prompt_add", promptsFile)
            => promptsFile' = promptsFile /\ result'.kind = "error"
       /\ AddedTo("keyword_add", keywordsFile)
            => keywordsFile' = keywordsFile /\ result'.kind = "error"
       /\ UniqueKeys(load_json(templatesFile').value)
       /\ UniqueKeys(load_json(promptsFile').value)
       /\ UniqueKeys(load_json(keywordsFile').value)]_vars

\* An add of k1 was refused while the store held k1 and k2, k1 with the other
\* value than the template page's first.
C5_DuplicateRefused ==
    /\ lastOp = "template_add"
    /\ result.kind = "error"
    /\ lastKey = "k1"
    /\ Keys(Templates) = {"k1", "k2"}
    /\ Get(Templates, "k1") = Template("n1", "v2")

\* C6 (NameSpec), as claimed: no create_document call returns a name that an
\* earlier call returned.
C6_NeverReused ==
    [][lastOp' = "create_document" => result'.value \notin everReturned]_vars

\* C6 (NameSpec), amended: create_document returns the name of the day with
\* the smallest suffix that no file of the directory has at the call; it is
\* the name of no document that exists then.
C6_FirstFreeName ==
    [][lastOp' = "create_document" =>
           /\ result'.value \notin Names(docs)
           /\ \E n \in 1..(Cardinality(docs) + 1) :
                  /\ result'.value = FileName(today, n)
                  /\ \A m \in 1..(n - 1) : FileName(today, m) \in Names(docs)]_vars

\* A call has returned a name that an earlier call returned: more calls than
\* names.
C6_NameReturnedTwice ==
    /\ lastOp = "create_document"
    /\ nCreated > Cardinality(everReturned)
    /\ Cardinality(docs) = 2

Count(store) == IF store # <<>> THEN 1 ELSE 0

\* C8 (SiteSpec): the nav mkdocs_setup writes is Home, then {title: file name}
\* of every index entry in the index's order, then Templates, Prompts and
\* Keywords, each iff its store is not empty, and nothing else.
C8_NavShape ==
    mkdocsConfig.exists =>
        LET nav == mkdocsConfig.nav
            n   == Len(Index)
        IN  /\ Len(nav) = 1 + n + Count(Templates) + Count(Prompts)
                          + Count(KeywordStore)
            /\ nav[1] = [label |-> <<"H", "o", "m", "e">>, target |-> "index.md"]
            /\ \A i \in 1..n :
                   nav[1 + i] = [label  |-> Index[i].value.title,
                                 target |-> Index[i].key]
            /\ Templates # <<>> => nav[n + 2].target = "templates.md"
            /\ Prompts # <<>> =>
                   nav[n + 2 + Count(Templates)].target = "prompts.md"
            /\ KeywordStore # <<>> =>
                   nav[n + 2 + Count(Templates) + Count(Prompts)].target
                       = "keywords.md"

\* mkdocs.yml was written for three documents, the second created first, two
\* of one title, with prompts and keywords and no template.
C8_ThreeDocsTwoPages ==
    /\ mkdocsConfig.exists
    /\ lastOp = "mkdocs_build"
    /\ Len(Index) = 3
    /\ Index[1].key = FileName(1, 2)
    /\ Index[1].value.title = Index[3].value.title
    /\ Templates = <<>>
    /\ Prompts # <<>>
    /\ KeywordStore # <<>>

\* C9 (LoadSpec): load_json of a file that is absent, or that does not parse,
\* returns {} and raises nothing.  (It leaves the file as it is: it opens it
\* for reading.)
C9_LoadNeverRaises ==
    (lastOp = "load_json" /\ probe.kind # "json")
        => loaded = Returned(<<>>)

ReadsBack(text, meta) ==
    /\ ReadScalar(text.title) = YamlValue(meta.title)
    /\ ReadScalar(text.category) = YamlValue(meta.category)
    /\ ReadList(text.tags) = YamlValue(meta.tags)

\* C10 (DocSpec): after every create_document, delete_document and
\* mkdocs_setup, from an empty store, the keys of the index are the document
\* files of the directory, and title, category and tags of every index entry
\* are those the file's front matter holds.
C10_IndexMatchesFiles ==
    /\ Keys(Index) = Names(docs)
    /\ \A i \in 1..Len(Index) :
           /\ Exists(docs, Index[i].key)
           /\ ReadsBack(TextOf(docs, Index[i].key), Index[i].value)

====
